---- MODULE Spec2Model ----
(***************************************************************************)
(* Model of bench/bench.py: the convolution benchmark driver.  One run of  *)
(* the script is one behaviour: module import (environment read), the      *)
(* __main__ block (argument handling, tracker connection, the sweep) and,  *)
(* per cell, bench_tvm with build_and_run inlined at its call site.        *)
(* Every call into tvm / topi / rpc / the checker either returns or        *)
(* raises; the two outcomes are separate actions.                          *)
(***************************************************************************)
EXTENDS Integers, Sequences, FiniteSets, TLC

\* ---------------------------------------------------------------- bounds
MaxWorkloads == 2      \* workloads in every workload set
MaxWarmup == 2         \* largest warmup count of a workload
MaxRun == 2            \* largest run count of a workload
MaxCost == 2           \* distinct mean costs the timer may report

\* ------------------------------------------------------ program constants
NumArgs == 8           \* positional arguments of a single-cell run
DefaultKey == "android"
ArgKey == "rpckey"     \* the <rpc-key> the command line carries

Targets == <<"cpu">>
Dtypes == <<"int8", "float">>
Layouts == <<"NCHW", "NHWC", "HWCN">>
WorkloadSets == <<"caffe2_depthwise", "caffe2_standard", "mobilenet">>
Schedules == <<"auto", "manual">>

SweepSize ==
    Len(Targets) * Len(Dtypes) * Len(Layouts) * Len(WorkloadSets) * Len(Schedules)

\* The n-th tuple (n from 0) of the nested loops, schedule innermost.
SweepCell(n) ==
    [target    |-> Targets[1],
     dtype     |-> Dtypes[((n \div 18) % 2) + 1],
     layout    |-> Layouts[((n \div 6) % 3) + 1],
     workloads |-> WorkloadSets[((n \div 2) % 3) + 1],
     schedule  |-> Schedules[(n % 2) + 1]]

\* ------------------------------------------- inputs of a run (command line)
Archs == {"armv7", "unknown_arch"}
ArgTargets == {"cpu", "gpu"}
ArgSchedules == {"auto", "manual", "tuned"}
EnvStates == {"set", "no_host", "no_port", "bad_port"}

SetOf(s) == {s[i] : i \in 1..Len(s)}

ArgCells ==
    [target : ArgTargets, dtype : SetOf(Dtypes), layout : SetOf(Layouts),
     workloads : SetOf(WorkloadSets), schedule : ArgSchedules]

\* ------------------------------------------------- external collaborators
\* utils.config_arch: the compile target, "None" for an unmapped pair.
config_arch(tgt, arch) ==
    IF arch = "armv7" /\ tgt = "cpu" THEN "llvm" ELSE "None"

\* workloads.get_workloads: the workload list of a set, as its accessors.
SetIndex(ws) == CHOOSE i \in 1..Len(WorkloadSets) : WorkloadSets[i] = ws

NumWorkloads(ws) == MaxWorkloads

WorkloadDepthwise(ws, i) ==
    \/ ws = "caffe2_depthwise"
    \/ ws = "mobilenet" /\ i % 2 = 1

WorkloadWarmup(ws, i) == (i + SetIndex(ws)) % (MaxWarmup + 1)

WorkloadRun(ws, i) == 1 + ((i + SetIndex(ws)) % MaxRun)

\* The shape parameters (kernel, space, channels) of a workload, as one value.
WorkloadShape(ws, i) == <<ws, i>>

\* data_type.get_data_type: the type names of a dtype object.
tvm_type(d) == IF d = "float" THEN "float32" ELSE d

np_type(d) == IF d = "float" THEN "float32" ELSE d

\* What a call may raise: an Exception, or a BaseException that is no
\* Exception (KeyboardInterrupt, SystemExit).
ExcKinds == {"Exception", "BaseException"}

\* ------------------------------------------------------------------ state
VARIABLES
    pc,         \* position of the script
    env,        \* state of TVM_TRACKER_HOST / TVM_TRACKER_PORT
    argv,       \* the command line: [n, arch, mode, cell]
    key,        \* module global key
    remote,     \* the session handle of __main__: 0 is None
    connects,   \* rpc.connect_tracker calls made
    requests,   \* tracker.request calls made
    cfg,        \* arguments of the current bench_tvm call
    calls,      \* bench_tvm calls made
    target,     \* compile target resolved by config_arch
    idx,        \* enumerate index of the workload loop
    warm,       \* warmup invocations done for the current workload
    ev,         \* calls and log lines of the current workload, in order
    out,        \* outcome lines printed for the current workload
    session,    \* session handle used by export/upload/load of the workload
    number,     \* number= passed to time_evaluator for the workload
    mean,       \* .mean returned by the timer for the workload
    failed,     \* the call of the current workload that raised ("" if none)
    attempts,   \* get_conv_ts calls made in the run
    builds,     \* tvm.build calls made in the run
    crash,      \* the failure that ended the process ("" if none)
    exc,        \* class of the exception the failed call raised ("" if none)
    history,    \* path handed to apply_history_best for the workload
    types,      \* element types of the workload's placeholders, operator, buffers
    checked,    \* arguments test_correctness was called with for the workload
    ship        \* artifact names exported / uploaded / loaded, and the module f

vars == <<pc, env, argv, key, remote, connects, requests, cfg, calls, target,
          idx, warm, ev, out, session, number, mean, failed, attempts, builds,
          crash, exc, history, types, checked, ship>>

mainVars == <<env, argv, key, remote, connects, requests>>
cellVars == <<cfg, calls, target>>
wlVars == <<idx, warm, ev, out, session, number, mean, failed, exc, history,
            types, checked, ship>>
countVars == <<attempts, builds>>

NoTypes == [holder |-> "", conv |-> "", input |-> "", filter |-> "",
            output |-> ""]

NoCheck == [called |-> FALSE, depthwise |-> FALSE, dtype |-> "", output |-> "",
            order |-> ""]

\* device: what the proxy holds under the workload's artifact name, "old"
\* (nothing, or a file an earlier workload or run left) until this workload
\* uploads; module: the code f runs.
NoShip == [exported |-> <<>>, uploaded |-> <<>>, loaded |-> <<>>,
           device |-> "old", module |-> ""]

NoCell == [target |-> "", dtype |-> "", layout |-> "", workloads |-> "",
           schedule |-> ""]

Init ==
    /\ pc = "import"
    /\ env \in EnvStates
    /\ \E n \in 0..NumArgs, a \in Archs, m \in {"local", "remote"}, c \in ArgCells :
          /\ (n < 2) => m = "local"
          /\ (n < NumArgs) => c = [target |-> "cpu", dtype |-> "int8",
                                   layout |-> "NCHW",
                                   workloads |-> "caffe2_depthwise",
                                   schedule |-> "auto"]
          /\ argv = [n |-> n, arch |-> a, mode |-> m, cell |-> c]
    /\ key = DefaultKey
    /\ remote = 0
    /\ connects = 0
    /\ requests = 0
    /\ cfg = NoCell
    /\ calls = 0
    /\ target = "None"
    /\ idx = 0
    /\ warm = 0
    /\ ev = <<>>
    /\ out = <<>>
    /\ session = 0
    /\ number = 0
    /\ mean = 0
    /\ failed = ""
    /\ attempts = 0
    /\ builds = 0
    /\ crash = ""
    /\ exc = ""
    /\ history = <<>>
    /\ types = NoTypes
    /\ checked = NoCheck
    /\ ship = NoShip

\* An exception nobody catches: the interpreter prints it and exits non-zero.
Propagate(cause) ==
    /\ pc' = "crashed"
    /\ crash' = cause

\* -------------------------------------------------- module import, __main__
\* tracker_host = os.environ[...]; tracker_port = int(os.environ[...])
ImportOk ==
    /\ pc = "import"
    /\ env = "set"
    /\ pc' = "start"
    /\ UNCHANGED <<mainVars, cellVars, wlVars, countVars, crash>>

ImportFail ==
    /\ pc = "import"
    /\ env # "set"
    /\ Propagate(IF env = "bad_port" THEN "ValueError" ELSE "KeyError")
    /\ UNCHANGED <<mainVars, cellVars, wlVars, countVars>>

\* arch = sys.argv[1]; if sys.argv[2] == "remote": key = sys.argv[3]
StartLocal ==
    /\ pc = "start"
    /\ argv.n >= 2
    /\ argv.mode # "remote"
    /\ remote' = 0
    /\ pc' = "dispatch"
    /\ UNCHANGED <<env, argv, key, connects, requests, cellVars, wlVars,
                   countVars, crash>>

StartRemote ==
    /\ pc = "start"
    /\ argv.n >= 3
    /\ argv.mode = "remote"
    /\ key' = ArgKey
    /\ pc' = "connect"
    /\ UNCHANGED <<env, argv, remote, connects, requests, cellVars, wlVars,
                   countVars, crash>>

StartIndexError ==
    /\ pc = "start"
    /\ \/ argv.n < 2
       \/ argv.n < 3 /\ argv.mode = "remote"
    /\ Propagate("IndexError")
    /\ UNCHANGED <<mainVars, cellVars, wlVars, countVars>>

\* tracker = rpc.connect_tracker(tracker_host, tracker_port)
ConnectOk ==
    /\ pc = "connect"
    /\ connects' = connects + 1
    /\ pc' = "request"
    /\ UNCHANGED <<env, argv, key, remote, requests, cellVars, wlVars,
                   countVars, crash>>

\* ConnectFail caught and the run carried on without a session.
ConnectFail_Swallow ==
    /\ pc = "connect"
    /\ connects' = connects + 1
    /\ remote' = 0
    /\ pc' = "dispatch"
    /\ UNCHANGED <<env, argv, key, requests, cellVars, wlVars, countVars,
                   crash>>

ConnectFail ==
    /\ pc = "connect"
    /\ connects' = connects + 1
    /\ Propagate("connect_tracker")
    /\ UNCHANGED <<env, argv, key, remote, requests, cellVars, wlVars,
                   countVars>>

\* remote = tracker.request(key)
RequestOk ==
    /\ pc = "request"
    /\ requests' = requests + 1
    /\ remote' = requests + 1
    /\ pc' = "dispatch"
    /\ UNCHANGED <<env, argv, key, connects, cellVars, wlVars, countVars,
                   crash>>

RequestFail ==
    /\ pc = "request"
    /\ requests' = requests + 1
    /\ Propagate("request")
    /\ UNCHANGED <<env, argv, key, remote, connects, cellVars, wlVars,
                   countVars>>

\* if len(sys.argv) > 4: one cell from sys.argv[4..8]; else the nested loops
SingleCell == argv.n > 3

DispatchSingle ==
    /\ pc = "dispatch"
    /\ SingleCell
    /\ argv.n >= NumArgs
    /\ cfg' = argv.cell
    /\ pc' = "bench"
    /\ UNCHANGED <<mainVars, calls, target, wlVars, countVars, crash>>

DispatchIndexError ==
    /\ pc = "dispatch"
    /\ SingleCell
    /\ argv.n < NumArgs
    /\ Propagate("IndexError")
    /\ UNCHANGED <<mainVars, cellVars, wlVars, countVars>>

DispatchSweep ==
    /\ pc = "dispatch"
    /\ ~SingleCell
    /\ cfg' = SweepCell(0)
    /\ pc' = "bench"
    /\ UNCHANGED <<mainVars, calls, target, wlVars, countVars, crash>>

\* bench_tvm returned: the next tuple of the loops, or the end of the script
NextCell ==
    /\ pc = "next_cell"
    /\ ~SingleCell
    /\ calls < SweepSize
    /\ cfg' = SweepCell(calls)
    /\ pc' = "bench"
    /\ UNCHANGED <<mainVars, calls, target, wlVars, countVars, crash>>

Finish ==
    /\ pc = "next_cell"
    /\ SingleCell \/ calls >= SweepSize
    /\ pc' = "done"
    /\ UNCHANGED <<mainVars, cellVars, wlVars, countVars, crash>>

\* ---------------------------------------------------------------- bench_tvm
Phase(ws, i) == IF WorkloadDepthwise(ws, i) THEN "depthwise" ELSE "standard"

CommonFields == {"target", "dtype", "layout", "input_shape", "filter_shape"}

\* "standard--target: ..., input_shape: ..., filter_shape: ... -> schedule skip"
ScheduleSkipLine ==
    [kind |-> "schedule skip", phase |-> "standard", fields |-> CommonFields,
     cost |-> 0]

\* "{phase}--target: ..., stride: ..., pad: ..., ... -> failed"
FailedLine(phase) ==
    [kind |-> "failed", phase |-> phase,
     fields |-> CommonFields \cup {"stride", "pad"}, cost |-> 0]

\* "{phase}--target: ..., input_shape: ..., filter_shape: ... -> run skip"
RunSkipLine(phase) ==
    [kind |-> "run skip", phase |-> phase, fields |-> CommonFields, cost |-> 0]

\* "{phase}--target: ..., stride: ..., pad: ..., ..., ops: ... -> {cost}"
CostLine(phase, c) ==
    [kind |-> "cost", phase |-> phase,
     fields |-> CommonFields \cup {"stride", "pad", "ops"}, cost |-> c]

\* OutputType without the int8 branch.
OutputType_Same(t) == t

\* output_type of get_conv_ts, handed to topi as out_dtype
OutputType(t) == IF t = "int8" THEN "int32" ELSE t

\* log_name = "../configs/" + key + "." + log_file
LogName(k) == <<"../configs/", k, ".", "convolutions.log">>

\* f_name = str(idx) + "_" + phase + "_" + kernel, space, channels
FName(i, ws) == <<i, Phase(ws, i), WorkloadShape(ws, i)>>

\* so_name = f_name + ".so"
SoName(i, ws) == <<FName(i, ws), ".so">>

\* CheckArgs with the phase of the schedule-skip line: a fixed "standard".
CheckArgs_Standard ==
    [called |-> TRUE,
     depthwise |-> FALSE,
     dtype |-> types.input,
     output |-> types.output,
     order |-> cfg.layout]

\* The arguments of the test_correctness call.
CheckArgs ==
    [called |-> TRUE,
     depthwise |-> (Phase(cfg.workloads, idx) = "depthwise"),
     dtype |-> types.input,
     output |-> types.output,
     order |-> cfg.layout]

\* BenchUnsupported without the early return.
BenchUnsupported_NoReturn ==
    /\ pc = "bench"
    /\ config_arch(cfg.target, argv.arch) = "None"
    /\ calls' = calls + 1
    /\ target' = "None"
    /\ idx' = -1
    /\ warm' = 0
    /\ ev' = <<>>
    /\ out' = <<>>
    /\ session' = 0
    /\ number' = 0
    /\ mean' = 0
    /\ failed' = ""
    /\ pc' = "loop"
    /\ UNCHANGED <<mainVars, cfg, countVars, crash>>
    /\ exc' = ""
    /\ history' = <<>>
    /\ types' = NoTypes
    /\ checked' = NoCheck
    /\ ship' = NoShip

\* target, target_host, ctx = config_arch(...); if target is None: return
BenchUnsupported ==
    /\ pc = "bench"
    /\ config_arch(cfg.target, argv.arch) = "None"
    /\ calls' = calls + 1
    /\ target' = "None"
    /\ idx' = -1
    /\ warm' = 0
    /\ ev' = <<>>
    /\ out' = <<>>
    /\ session' = 0
    /\ number' = 0
    /\ mean' = 0
    /\ failed' = ""
    /\ pc' = "next_cell"
    /\ UNCHANGED <<mainVars, cfg, countVars, crash>>
    /\ exc' = ""
    /\ history' = <<>>
    /\ types' = NoTypes
    /\ checked' = NoCheck
    /\ ship' = NoShip

BenchSupported ==
    /\ pc = "bench"
    /\ config_arch(cfg.target, argv.arch) # "None"
    /\ calls' = calls + 1
    /\ target' = config_arch(cfg.target, argv.arch)
    /\ idx' = -1
    /\ warm' = 0
    /\ ev' = <<>>
    /\ out' = <<>>
    /\ session' = 0
    /\ number' = 0
    /\ mean' = 0
    /\ failed' = ""
    /\ pc' = "loop"
    /\ UNCHANGED <<mainVars, cfg, countVars, crash>>
    /\ exc' = ""
    /\ history' = <<>>
    /\ types' = NoTypes
    /\ checked' = NoCheck
    /\ ship' = NoShip

\* for idx, workload in enumerate(workloads): the list is exhausted
LoopExit ==
    /\ pc = "loop"
    /\ idx + 1 >= NumWorkloads(cfg.workloads)
    /\ pc' = "next_cell"
    /\ UNCHANGED <<mainVars, cellVars, wlVars, countVars, crash>>

\* The head of the loop body: accessors, shapes, placeholders, random data.
PrepareOk ==
    /\ pc = "loop"
    /\ idx + 1 < NumWorkloads(cfg.workloads)
    /\ idx' = idx + 1
    /\ warm' = 0
    /\ ev' = <<"prepare">>
    /\ out' = <<>>
    /\ session' = 0
    /\ number' = 0
    /\ mean' = 0
    /\ failed' = ""
    /\ pc' = "history"
    /\ UNCHANGED <<mainVars, cellVars, countVars, crash>>
    /\ exc' = ""
    /\ history' = <<>>
    /\ types' = [NoTypes EXCEPT !.holder = tvm_type(cfg.dtype)]
    /\ checked' = NoCheck
    /\ ship' = NoShip

PrepareFail ==
    /\ pc = "loop"
    /\ idx + 1 < NumWorkloads(cfg.workloads)
    /\ idx' = idx + 1
    /\ warm' = 0
    /\ ev' = <<"prepare">>
    /\ out' = <<>>
    /\ session' = 0
    /\ number' = 0
    /\ mean' = 0
    /\ failed' = "prepare"
    /\ Propagate("prepare")
    /\ UNCHANGED <<mainVars, cellVars, countVars>>
    /\ exc' \in ExcKinds
    /\ history' = <<>>
    /\ types' = NoTypes
    /\ checked' = NoCheck
    /\ ship' = NoShip

\* with autotvm.apply_history_best(log_name) if schedule == "manual"
\*      else dummy_context_mgr():
\* UsesHistory as "anything but auto".
UsesHistory_NotAuto == cfg.schedule # "auto"

UsesHistory == cfg.schedule = "manual"

HistoryOk ==
    /\ pc = "history"
    /\ UsesHistory
    /\ ev' = Append(ev, "apply_history_best")
    /\ pc' = "target_scope"
    /\ UNCHANGED <<mainVars, cellVars, idx, warm, out, session, number, mean,
                   failed, countVars, crash>>
    /\ history' = LogName(key)
    /\ UNCHANGED <<exc, types, checked, ship>>

HistoryFail ==
    /\ pc = "history"
    /\ UsesHistory
    /\ ev' = Append(ev, "apply_history_best")
    /\ failed' = "apply_history_best"
    /\ Propagate("apply_history_best")
    /\ UNCHANGED <<mainVars, cellVars, idx, warm, out, session, number, mean,
                   countVars>>
    /\ history' = LogName(key)
    /\ exc' \in ExcKinds
    /\ UNCHANGED <<types, checked, ship>>

DummyContext ==
    /\ pc = "history"
    /\ ~UsesHistory
    /\ pc' = "target_scope"
    /\ UNCHANGED <<mainVars, cellVars, wlVars, countVars, crash>>

\* with tvm.target.create(target):
TargetScopeOk ==
    /\ pc = "target_scope"
    /\ ev' = Append(ev, "target_create")
    /\ pc' = "get_conv_ts"
    /\ UNCHANGED <<mainVars, cellVars, idx, warm, out, session, number, mean,
                   failed, countVars, crash>>
    /\ UNCHANGED <<exc, history, types, checked, ship>>

TargetScopeFail ==
    /\ pc = "target_scope"
    /\ ev' = Append(ev, "target_create")
    /\ failed' = "target_create"
    /\ Propagate("target_create")
    /\ UNCHANGED <<mainVars, cellVars, idx, warm, out, session, number, mean,
                   countVars>>
    /\ exc' \in ExcKinds
    /\ UNCHANGED <<history, types, checked, ship>>

\* RunSkip with break after the line: the rest of the workload set is dropped.
RunSkip_Break(call) ==
    /\ failed' = call
    /\ ev' = ev \o <<call, "run_skip">>
    /\ out' = Append(out, RunSkipLine(Phase(cfg.workloads, idx)))
    /\ pc' = "next_cell"
    /\ exc' \in ExcKinds

\* RunSkip as except Exception: a BaseException that is no Exception passes
\* the handler by.
RunSkip_ExceptionOnly(call) ==
    \E k \in ExcKinds :
        /\ exc' = k
        /\ failed' = call
        /\ IF k = "Exception"
           THEN /\ ev' = ev \o <<call, "run_skip">>
                /\ out' = Append(out, RunSkipLine(Phase(cfg.workloads, idx)))
                /\ pc' = "loop"
           ELSE /\ ev' = Append(ev, call)
                /\ out' = out
                /\ pc' = "crashed"

\* RunSkip with a raise at the end of the handler.
RunSkip_Reraise(call) ==
    /\ failed' = call
    /\ ev' = ev \o <<call, "run_skip">>
    /\ out' = Append(out, RunSkipLine(Phase(cfg.workloads, idx)))
    /\ pc' = "crashed"
    /\ exc' \in ExcKinds

\* except BaseException (line 242): print(e), the run-skip line, then the
\* end of the loop body.
RunSkip(call) ==
    /\ failed' = call
    /\ ev' = ev \o <<call, "run_skip">>
    /\ out' = Append(out, RunSkipLine(Phase(cfg.workloads, idx)))
    /\ pc' = "loop"
    /\ exc' \in ExcKinds

\* try: conv, ts = get_conv_ts(...)
GetConvTsOk ==
    /\ pc = "get_conv_ts"
    /\ attempts' = attempts + 1
    /\ ev' = Append(ev, "get_conv_ts")
    /\ pc' = "alloc"
    /\ UNCHANGED <<mainVars, cellVars, idx, warm, out, session, number, mean,
                   failed, builds, crash>>
    /\ types' = [types EXCEPT !.conv = OutputType(tvm_type(cfg.dtype))]
    /\ UNCHANGED <<exc, history, checked, ship>>

\* GetConvTsFail without the continue: the else: branch follows the handler.
GetConvTsFail_NoContinue ==
    /\ pc = "get_conv_ts"
    /\ attempts' = attempts + 1
    /\ failed' = "get_conv_ts"
    /\ ev' = ev \o <<"get_conv_ts", "schedule_skip">>
    /\ out' = Append(out, ScheduleSkipLine)
    /\ pc' = "alloc"
    /\ exc' \in ExcKinds
    /\ UNCHANGED <<mainVars, cellVars, idx, warm, session, number, mean,
                   builds, crash, history, types, checked, ship>>

\* GetConvTsFail with break in place of continue.
GetConvTsFail_Break ==
    /\ pc = "get_conv_ts"
    /\ attempts' = attempts + 1
    /\ failed' = "get_conv_ts"
    /\ ev' = ev \o <<"get_conv_ts", "schedule_skip">>
    /\ out' = Append(out, ScheduleSkipLine)
    /\ pc' = "next_cell"
    /\ UNCHANGED <<mainVars, cellVars, idx, warm, session, number, mean,
                   builds, crash>>
    /\ exc' \in ExcKinds
    /\ UNCHANGED <<history, types, checked, ship>>

\* except BaseException (line 198): print(e), the schedule-skip line, continue
GetConvTsFail ==
    /\ pc = "get_conv_ts"
    /\ attempts' = attempts + 1
    /\ failed' = "get_conv_ts"
    /\ ev' = ev \o <<"get_conv_ts", "schedule_skip">>
    /\ out' = Append(out, ScheduleSkipLine)
    /\ pc' = "loop"
    /\ UNCHANGED <<mainVars, cellVars, idx, warm, session, number, mean,
                   builds, crash>>
    /\ exc' \in ExcKinds
    /\ UNCHANGED <<history, types, checked, ship>>

\* tvm_input, tvm_filter, tvm_output = tvm.nd.array(..., ctx); get_num_ops
AllocOk ==
    /\ pc = "alloc"
    /\ ev' = Append(ev, "alloc")
    /\ pc' = "build_config"
    /\ UNCHANGED <<mainVars, cellVars, idx, warm, out, session, number, mean,
                   failed, countVars, crash>>
    /\ types' = [types EXCEPT !.input = np_type(cfg.dtype),
                               !.filter = np_type(cfg.dtype),
                               !.output = types.conv]
    /\ UNCHANGED <<exc, history, checked, ship>>

AllocFail ==
    /\ pc = "alloc"
    /\ RunSkip("alloc")
    /\ UNCHANGED <<mainVars, cellVars, idx, warm, session, number, mean,
                   countVars, crash>>
    /\ UNCHANGED <<history, types, checked, ship>>

\* ------------------------------------------------------------ build_and_run
\* with tvm.build_config():
BuildConfigOk ==
    /\ pc = "build_config"
    /\ ev' = Append(ev, "build_config")
    /\ pc' = "build"
    /\ UNCHANGED <<mainVars, cellVars, idx, warm, out, session, number, mean,
                   failed, countVars, crash>>
    /\ UNCHANGED <<exc, history, types, checked, ship>>

BuildConfigFail ==
    /\ pc = "build_config"
    /\ RunSkip("build_config")
    /\ UNCHANGED <<mainVars, cellVars, idx, warm, session, number, mean,
                   countVars, crash>>
    /\ UNCHANGED <<history, types, checked, ship>>

\* BuildOk with the export step left out of the remote branch.
BuildOk_NoExport ==
    /\ pc = "build"
    /\ builds' = builds + 1
    /\ ev' = Append(ev, "build")
    /\ pc' = IF remote # 0 THEN "upload" ELSE "warmup"
    /\ UNCHANGED <<mainVars, cellVars, idx, warm, out, session, number, mean,
                   failed, attempts, crash>>
    /\ ship' = [ship EXCEPT !.module = "built"]
    /\ UNCHANGED <<exc, history, types, checked>>

\* try: f = tvm.build(...)  else: if remote is not None: ...
BuildOk ==
    /\ pc = "build"
    /\ builds' = builds + 1
    /\ ev' = Append(ev, "build")
    /\ pc' = IF remote # 0 THEN "export" ELSE "warmup"
    /\ UNCHANGED <<mainVars, cellVars, idx, warm, out, session, number, mean,
                   failed, attempts, crash>>
    /\ ship' = [ship EXCEPT !.module = "built"]
    /\ UNCHANGED <<exc, history, types, checked>>

\* BuildFail with a raise at the end of the handler: the caller's handler
\* (line 242) reports the same failure again.
BuildFail_Reraise ==
    /\ pc = "build"
    /\ builds' = builds + 1
    /\ failed' = "build"
    /\ ev' = ev \o <<"build", "failed_line", "run_skip">>
    /\ out' = out \o <<FailedLine(Phase(cfg.workloads, idx)),
                        RunSkipLine(Phase(cfg.workloads, idx))>>
    /\ pc' = "loop"
    /\ exc' \in ExcKinds
    /\ UNCHANGED <<mainVars, cellVars, idx, warm, session, number, mean,
                   attempts, crash, history, types, checked, ship>>

\* BuildFail without the else: of line 70: the upload/run code follows the
\* handler.
BuildFail_FallThrough ==
    /\ pc = "build"
    /\ builds' = builds + 1
    /\ failed' = "build"
    /\ ev' = ev \o <<"build", "failed_line">>
    /\ out' = Append(out, FailedLine(Phase(cfg.workloads, idx)))
    /\ pc' = IF remote # 0 THEN "export" ELSE "warmup"
    /\ UNCHANGED <<mainVars, cellVars, idx, warm, session, number, mean,
                   attempts, crash>>
    /\ exc' \in ExcKinds
    /\ UNCHANGED <<history, types, checked, ship>>

\* except BaseException (line 62): print(e), the failed line; build_and_run
\* returns normally and bench_tvm takes the else: continue of line 250.
BuildFail ==
    /\ pc = "build"
    /\ builds' = builds + 1
    /\ failed' = "build"
    /\ ev' = ev \o <<"build", "failed_line">>
    /\ out' = Append(out, FailedLine(Phase(cfg.workloads, idx)))
    /\ pc' = "loop"
    /\ UNCHANGED <<mainVars, cellVars, idx, warm, session, number, mean,
                   attempts, crash>>
    /\ exc' \in ExcKinds
    /\ UNCHANGED <<history, types, checked, ship>>

\* ExportOk with the upload left out: load_module finds what the proxy holds.
ExportOk_NoUpload ==
    /\ pc = "export"
    /\ ev' = Append(ev, "export_library")
    /\ pc' = "load"
    /\ ship' = [ship EXCEPT !.exported = SoName(idx, cfg.workloads)]
    /\ UNCHANGED <<mainVars, cellVars, idx, warm, out, session, number, mean,
                   failed, countVars, crash, exc, history, types, checked>>

\* f.export_library(path_so, ndk.create_shared)
ExportOk ==
    /\ pc = "export"
    /\ ev' = Append(ev, "export_library")
    /\ pc' = "upload"
    /\ UNCHANGED <<mainVars, cellVars, idx, warm, out, session, number, mean,
                   failed, countVars, crash>>
    /\ ship' = [ship EXCEPT !.exported = SoName(idx, cfg.workloads)]
    /\ UNCHANGED <<exc, history, types, checked>>

ExportFail ==
    /\ pc = "export"
    /\ RunSkip("export_library")
    /\ UNCHANGED <<mainVars, cellVars, idx, warm, session, number, mean,
                   countVars, crash>>
    /\ UNCHANGED <<history, types, checked, ship>>

\* remote.upload(path_so)
UploadOk ==
    /\ pc = "upload"
    /\ session' = remote
    /\ ev' = Append(ev, "upload")
    /\ pc' = "load"
    /\ UNCHANGED <<mainVars, cellVars, idx, warm, out, number, mean, failed,
                   countVars, crash>>
    /\ ship' = [ship EXCEPT !.uploaded = ship.exported, !.device = "fresh"]
    /\ UNCHANGED <<exc, history, types, checked>>

UploadFail ==
    /\ pc = "upload"
    /\ session' = remote
    /\ RunSkip("upload")
    /\ UNCHANGED <<mainVars, cellVars, idx, warm, number, mean, countVars,
                   crash>>
    /\ UNCHANGED <<history, types, checked, ship>>

\* f = remote.load_module(so_name)
LoadOk ==
    /\ pc = "load"
    /\ ev' = Append(ev, "load_module")
    /\ pc' = "warmup"
    /\ UNCHANGED <<mainVars, cellVars, idx, warm, out, session, number, mean,
                   failed, countVars, crash>>
    /\ ship' = [ship EXCEPT
                   !.loaded = SoName(idx, cfg.workloads),
                   !.module = IF ship.uploaded = SoName(idx, cfg.workloads)
                                 /\ ship.device = "fresh"
                              THEN "fresh" ELSE "old"]
    /\ UNCHANGED <<exc, history, types, checked>>

LoadFail ==
    /\ pc = "load"
    /\ RunSkip("load_module")
    /\ UNCHANGED <<mainVars, cellVars, idx, warm, session, number, mean,
                   countVars, crash>>
    /\ UNCHANGED <<history, types, checked, ship>>

\* WarmupPending with range(warmup + 1).
WarmupPending_OffByOne == warm <= WorkloadWarmup(cfg.workloads, idx)

\* for _ in range(warmup): f(tvm_input, tvm_filter, tvm_output)
WarmupPending == warm < WorkloadWarmup(cfg.workloads, idx)

InvokeOk ==
    /\ pc = "warmup"
    /\ WarmupPending
    /\ warm' = warm + 1
    /\ ev' = Append(ev, "invoke")
    /\ UNCHANGED <<pc, mainVars, cellVars, idx, out, session, number, mean,
                   failed, countVars, crash>>
    /\ UNCHANGED <<exc, history, types, checked, ship>>

InvokeFail ==
    /\ pc = "warmup"
    /\ WarmupPending
    /\ RunSkip("invoke")
    /\ UNCHANGED <<mainVars, cellVars, idx, warm, session, number, mean,
                   countVars, crash>>
    /\ UNCHANGED <<history, types, checked, ship>>

\* timer = f.time_evaluator(f.entry_name, ctx, number=run)
\* cost = timer(...).mean; print(the cost line)
TimeOk ==
    /\ pc = "warmup"
    /\ ~WarmupPending
    /\ \E c \in 1..MaxCost :
          /\ mean' = c
          /\ out' = Append(out, CostLine(Phase(cfg.workloads, idx), c))
    /\ number' = WorkloadRun(cfg.workloads, idx)
    /\ ev' = ev \o <<"time", "cost_line">>
    /\ pc' = "check"
    /\ UNCHANGED <<mainVars, cellVars, idx, warm, session, failed, countVars,
                   crash>>
    /\ UNCHANGED <<exc, history, types, checked, ship>>

TimeFail ==
    /\ pc = "warmup"
    /\ ~WarmupPending
    /\ number' = WorkloadRun(cfg.workloads, idx)
    /\ RunSkip("time")
    /\ UNCHANGED <<mainVars, cellVars, idx, warm, session, mean, countVars,
                   crash>>
    /\ UNCHANGED <<history, types, checked, ship>>

\* test_correctness(..., tvm_output.asnumpy(), dtype=..., order=..., depthwise=...)
CheckOk ==
    /\ pc = "check"
    /\ ev' = Append(ev, "test_correctness")
    /\ pc' = "loop"
    /\ UNCHANGED <<mainVars, cellVars, idx, warm, out, session, number, mean,
                   failed, countVars, crash>>
    /\ checked' = CheckArgs
    /\ UNCHANGED <<exc, history, types, ship>>

CheckFail ==
    /\ pc = "check"
    /\ RunSkip("test_correctness")
    /\ UNCHANGED <<mainVars, cellVars, idx, warm, session, number, mean,
                   countVars, crash>>
    /\ checked' = CheckArgs
    /\ UNCHANGED <<history, types, ship>>

\* ------------------------------------------------------------ specification
Next ==
    \/ ImportOk \/ ImportFail
    \/ StartLocal \/ StartRemote \/ StartIndexError
    \/ ConnectOk \/ ConnectFail \/ RequestOk \/ RequestFail
    \/ DispatchSingle \/ DispatchIndexError \/ DispatchSweep
    \/ NextCell \/ Finish
    \/ BenchUnsupported \/ BenchSupported
    \/ LoopExit \/ PrepareOk \/ PrepareFail
    \/ HistoryOk \/ HistoryFail \/ DummyContext
    \/ TargetScopeOk \/ TargetScopeFail
    \/ GetConvTsOk \/ GetConvTsFail
    \/ AllocOk \/ AllocFail
    \/ BuildConfigOk \/ BuildConfigFail
    \/ BuildOk \/ BuildFail
    \/ ExportOk \/ ExportFail \/ UploadOk \/ UploadFail \/ LoadOk \/ LoadFail
    \/ InvokeOk \/ InvokeFail
    \/ TimeOk \/ TimeFail
    \/ CheckOk \/ CheckFail

Spec == Init /\ [][Next]_vars

\* The interpreter runs the script to its end: whenever a statement is left
\* to execute it is executed, every external call returning or raising.
FairSpec == Init /\ [][Next]_vars /\ WF_vars(Next)

TypeOK ==
    /\ pc \in {"import", "start", "connect", "request", "dispatch", "bench",
               "next_cell", "done", "crashed", "loop", "history",
               "target_scope", "get_conv_ts", "alloc", "build_config", "build",
               "export", "upload", "load", "warmup", "check"}
    /\ idx \in -1..(MaxWorkloads - 1)
    /\ warm \in 0..MaxWarmup
    /\ calls \in 0..SweepSize
    /\ attempts \in 0..(SweepSize * MaxWorkloads)
    /\ builds \in 0..attempts
    /\ Len(out) <= 2

\* ------------------------------------------------------------- vocabulary
Count(s, e) == Cardinality({i \in 1..Len(s) : s[i] = e})

Has(s, e) == \E i \in 1..Len(s) : s[i] = e

IndexOf(s, e) == CHOOSE i \in 1..Len(s) : s[i] = e /\ \A j \in 1..(i - 1) : s[j] # e

IsPrefix(s, t) == Len(s) <= Len(t) /\ \A i \in 1..Len(s) : s[i] = t[i]

Kinds(lines) == [i \in 1..Len(lines) |-> lines[i].kind]

Repeat(e, n) == [i \in 1..n |-> e]

\* ev, out, failed describe workload idx of cfg (a later bench_tvm call has
\* not been entered yet).
InWl == ev # <<>> /\ pc # "bench"

\* The loop body of that workload has been left without an uncaught failure.
WlEnded == InWl /\ pc \in {"loop", "next_cell", "done"}

BeforeSchedule == {"history", "target_scope", "get_conv_ts"}

InCell ==
    BeforeSchedule \cup {"alloc", "build_config", "build", "export", "upload",
                         "load", "warmup", "check", "loop", "next_cell", "done"}

\* get_conv_ts calls the loops have made once the script is at pc, when every
\* workload of every earlier tuple and every earlier workload of this one was
\* attempted exactly once.
Attempted ==
    (calls - 1) * MaxWorkloads + (idx + 1)
        - (IF pc \in BeforeSchedule THEN 1 ELSE 0)

InOrder ==
    (target # "None" /\ pc \in InCell) => attempts = Attempted

ListedCalls ==
    {"get_conv_ts", "alloc", "build", "export_library", "upload", "load_module",
     "invoke", "time", "test_correctness"}

\* The outcome lines a workload prints, by the call of it that raised.
ExpectedKinds(f) ==
    CASE f = "" -> <<"cost">>
      [] f = "get_conv_ts" -> <<"schedule skip">>
      [] f = "build" -> <<"failed">>
      [] f = "test_correctness" -> <<"cost", "run skip">>
      [] OTHER -> <<"run skip">>

FullFields ==
    {"target", "dtype", "layout", "stride", "pad", "input_shape", "filter_shape"}

FailureKinds == {"schedule skip", "failed", "run skip"}

\* The calls of a workload after its build, as the claims order them.
RunSequence(w) ==
    Repeat("invoke", w) \o <<"time", "cost_line", "test_correctness">>

ShipSequence == <<"export_library", "upload", "load_module">>

\* ------------------------------------------------------------------ claims
\* C1: failure isolation.  A failure raised by schedule construction,
\* compilation, buffer allocation, export/upload/load, a kernel invocation,
\* the timing or the correctness check never ends the process; whatever
\* failed before, the loops are at the position they would be at without
\* failures (every earlier pair was attempted once), a finished run has made
\* every bench_tvm call, and the lines a finished workload printed are a
\* function of the call that failed in that workload alone.
C1_FailureIsolation ==
    /\ failed \in ListedCalls => pc # "crashed" /\ crash = ""
    /\ InOrder
    /\ pc = "done" => calls = (IF SingleCell THEN 1 ELSE SweepSize)
    /\ WlEnded => Kinds(out) = ExpectedKinds(failed)

\* A finished default sweep in which a workload failed before compilation
\* and the last workload succeeded.
C1_Witness ==
    /\ pc = "done"
    /\ ~SingleCell
    /\ calls = SweepSize
    /\ attempts = SweepSize * MaxWorkloads
    /\ builds < attempts
    /\ failed = ""

\* C2: exactly one outcome line per attempted workload: never two, never
\* none once the workload is over, and no cost line for a workload in which
\* a call failed.
C2_OneOutcome ==
    /\ InWl => Len(out) <= 1
    /\ WlEnded => Len(out) = 1
    /\ (InWl /\ failed # "") => \A i \in 1..Len(out) : out[i].kind # "cost"

\* C3 as stated: a finished run on a supported target has called bench_tvm
\* once (eight arguments) or once per tuple (otherwise) and has attempted one
\* tvm.build per (cell x workload).
C3_OneBuildPerPair ==
    (pc = "done" /\ target # "None") =>
        /\ calls = (IF argv.n = NumArgs THEN 1 ELSE SweepSize)
        /\ builds = calls * MaxWorkloads

\* C3 amended: a run that ends normally has called bench_tvm once (more than
\* three arguments, all eight present) or once per tuple in loop order (at
\* most three arguments); with four to seven arguments no call is made.  On a
\* supported target every (cell x workload) gets exactly one get_conv_ts call
\* and the workloads of a tuple are all processed before the next tuple
\* starts; tvm.build is called at most once per pair: once when schedule
\* construction, buffer allocation and the build-config scope succeeded, not
\* at all otherwise.
C3_Exhaustive ==
    /\ pc = "done" => calls = (IF SingleCell THEN 1 ELSE SweepSize)
    /\ (SingleCell /\ argv.n < NumArgs) => calls = 0 /\ pc # "done"
    /\ (pc \in InCell) =>
          cfg = (IF SingleCell THEN argv.cell ELSE SweepCell(calls - 1))
    /\ InOrder
    /\ InWl => Count(ev, "get_conv_ts") <= 1 /\ Count(ev, "build") <= 1
    /\ WlEnded =>
          /\ Count(ev, "get_conv_ts") = 1
          /\ Count(ev, "build") = 1
                <=> failed \notin {"get_conv_ts", "alloc", "build_config"}
    /\ builds <= attempts

\* A finished default sweep whose last workload was skipped at schedule
\* construction: every pair attempted, fewer builds than pairs.
C3_Witness ==
    /\ pc = "done"
    /\ calls = SweepSize
    /\ attempts = SweepSize * MaxWorkloads
    /\ builds < attempts
    /\ failed = "get_conv_ts"
    /\ ~Has(ev, "build")

C5_SessionLifecycle ==
    /\ connects <= 1 /\ requests <= connects
    /\ argv.mode # "remote" =>
          connects = 0 /\ requests = 0 /\ remote = 0 /\ session = 0
    /\ (argv.mode = "remote" /\ (calls > 0 \/ pc \in {"dispatch", "bench"})) =>
          connects = 1 /\ requests = 1 /\ remote = 1
    /\ session \in {0, remote}
    /\ (argv.mode = "remote" /\ InWl /\ Has(ev, "upload")) => session = 1
    /\ crash \in {"connect_tracker", "request"} =>
          calls = 0 /\ attempts = 0 /\ ev = <<>> /\ out = <<>> /\ remote = 0

\* The last bench_tvm call of a remote sweep uploads through the session
\* requested at start-up, after an earlier workload had failed.
C5_Witness ==
    /\ argv.mode = "remote"
    /\ calls = SweepSize
    /\ pc = "load"
    /\ session = 1
    /\ connects = 1
    /\ requests = 1
    /\ builds < attempts

\* C6: the tracker variables are needed by a remote run only: a local run
\* (python bench.py <arch> local ...) never ends on a missing variable.
C6_EnvOnlyForRemote ==
    (argv.n >= 2 /\ argv.mode # "remote") => crash # "KeyError"

\* C7: after a successful build the calls of a workload follow one fixed
\* sequence: in a remote run export, upload, load, in this order and before
\* any invocation, in a local run none of the three; then, in both, the
\* warmup invocations, the timing, the cost line and the check.
C7_LocalRemoteUniform ==
    (InWl /\ Has(ev, "build") /\ failed # "build") =>
        LET tail == SubSeq(ev, IndexOf(ev, "build") + 1, Len(ev))
            made == SelectSeq(tail, LAMBDA e : e # "run_skip")
            run == RunSequence(WorkloadWarmup(cfg.workloads, idx))
        IN  /\ remote # 0 => IsPrefix(made, ShipSequence \o run)
            /\ remote = 0 => IsPrefix(made, run)
            /\ Has(tail, "run_skip") =>
                  tail[Len(tail)] = "run_skip" /\ Count(tail, "run_skip") = 1

\* A remote workload that shipped its artifact, warmed up, was timed and
\* checked.
C7_Witness ==
    /\ WlEnded
    /\ remote # 0
    /\ failed = ""
    /\ Has(ev, "load_module")
    /\ Has(ev, "invoke")
    /\ ev[Len(ev)] = "test_correctness"

\* C8: a bench_tvm call whose target does not resolve returns at once: no
\* call, no line, no schedule construction and no build is made for it, and
\* the sweep goes on to its last tuple.
C8_UnsupportedShortCircuit ==
    /\ (calls > 0 /\ target = "None") =>
          /\ pc \in {"next_cell", "bench", "done"}
          /\ ev = <<>>
          /\ out = <<>>
          /\ attempts = 0
          /\ builds = 0
    /\ (pc = "done" /\ ~SingleCell) => calls = SweepSize

\* A default sweep on an unmapped architecture, finished.
C8_Witness ==
    /\ pc = "done"
    /\ ~SingleCell
    /\ target = "None"
    /\ calls = SweepSize

\* C9: the kernel is invoked at most warmup times, only after the build (and
\* the load of a remote run); the timer is called at most once, after exactly
\* warmup invocations and none after it, with number = run; the cost line
\* follows it at once and carries the mean it returned; a failed invocation
\* is the last call of the workload.
C9_Timer ==
    InWl =>
        LET n == WorkloadWarmup(cfg.workloads, idx) IN
        /\ Count(ev, "invoke") <= n
        /\ Count(ev, "time") <= 1
        /\ Has(ev, "invoke") =>
              /\ Has(ev, "build")
              /\ IndexOf(ev, "build") < IndexOf(ev, "invoke")
              /\ remote # 0 =>
                    /\ Has(ev, "load_module")
                    /\ IndexOf(ev, "load_module") < IndexOf(ev, "invoke")
        /\ Has(ev, "time") =>
              /\ Count(ev, "invoke") = n
              /\ \A i \in 1..Len(ev) :
                    ev[i] = "invoke" => i < IndexOf(ev, "time")
              /\ number = WorkloadRun(cfg.workloads, idx)
        /\ Has(ev, "cost_line") =>
              /\ IndexOf(ev, "cost_line") = IndexOf(ev, "time") + 1
              /\ out[1] = CostLine(Phase(cfg.workloads, idx), mean)
              /\ mean \in 1..MaxCost
        /\ failed = "invoke" =>
              /\ ev[Len(ev)] = "run_skip"
              /\ ev[Len(ev) - 1] = "invoke"
              /\ ~Has(ev, "time")

\* A workload with the largest warmup count, timed.
C9_Witness ==
    /\ InWl
    /\ pc = "check"
    /\ Count(ev, "invoke") = MaxWarmup
    /\ number = WorkloadRun(cfg.workloads, idx)
    /\ mean = MaxCost

\* C10: every failure line names the phase of the workload that failed and
\* carries target, dtype, layout, stride, pad, input shape and filter shape.
C10_FailureLinesFull ==
    InWl =>
        \A i \in 1..Len(out) :
            out[i].kind \in FailureKinds =>
                /\ out[i].phase = Phase(cfg.workloads, idx)
                /\ FullFields \subseteq out[i].fields

\* C11: test_correctness is called with depthwise equal to the workload's
\* depthwise flag and with an output array of the promoted type: int32, not
\* int8, for an int8 workload.
C11_CheckerArguments ==
    (InWl /\ checked.called) =>
        /\ checked.depthwise = WorkloadDepthwise(cfg.workloads, idx)
        /\ checked.order = cfg.layout
        /\ cfg.dtype = "int8" =>
              checked.output = "int32" /\ checked.output # checked.dtype

\* The depthwise int8 NHWC workload, checked.
C11_Witness ==
    /\ InWl
    /\ checked.called
    /\ cfg.dtype = "int8"
    /\ cfg.layout = "NHWC"
    /\ WorkloadDepthwise(cfg.workloads, idx)
    /\ checked.depthwise
    /\ checked.output = "int32"

\* C12: the operator's output type, and with it the output buffer's, is int32
\* for an int8 input and the input type otherwise; placeholders, input buffer
\* and filter buffer keep the input type.
C12_OutputPromotion ==
    (InWl /\ failed # "prepare") =>
        LET t == tvm_type(cfg.dtype) IN
        /\ types.holder = t
        /\ types.conv # "" => types.conv = (IF t = "int8" THEN "int32" ELSE t)
        /\ types.output # "" =>
              /\ types.output = (IF t = "int8" THEN "int32" ELSE t)
              /\ types.input = t
              /\ types.filter = t
        /\ (types.conv = "") = ~(Has(ev, "get_conv_ts") /\ failed # "get_conv_ts")
        /\ (types.output = "") = ~(Has(ev, "alloc") /\ failed # "alloc")

\* An int8 workload with its buffers allocated: int8 in, int32 out.
C12_Witness ==
    /\ InWl
    /\ pc = "build"
    /\ types.input = "int8"
    /\ types.filter = "int8"
    /\ types.conv = "int32"
    /\ types.output = "int32"

\* C13: the history store is consulted for a workload exactly when the
\* strategy is "manual", and then under ../configs/<key>.convolutions.log,
\* <key> being the command line's RPC key in a remote run and the default key
\* otherwise.
C13_HistoryLookup ==
    (InWl /\ pc # "history" /\ failed # "prepare") =>
        /\ Has(ev, "apply_history_best") <=> cfg.schedule = "manual"
        /\ (history # <<>>) <=> cfg.schedule = "manual"
        /\ history # <<>> =>
              history = <<"../configs/",
                          IF argv.mode = "remote" THEN ArgKey ELSE DefaultKey,
                          ".", "convolutions.log">>

\* A remote manual workload past the lookup, under the command line's key.
C13_Witness ==
    /\ InWl
    /\ pc = "get_conv_ts"
    /\ argv.mode = "remote"
    /\ cfg.schedule = "manual"
    /\ history = <<"../configs/", ArgKey, ".", "convolutions.log">>

\* Failures that are raised outside the three try scopes of bench_tvm and
\* build_and_run.
OutsideCauses ==
    {"KeyError", "ValueError", "IndexError", "connect_tracker", "request",
     "prepare", "apply_history_best", "target_create"}

\* C14: the script always comes to an end; it ends normally, after the one
\* cell or all cells of the sweep, however many workloads failed inside the
\* schedule, build and run scopes, and ends abnormally only on a failure
\* raised outside those scopes.
C14_Terminates ==
    /\ <>(pc \in {"done", "crashed"})
    /\ [](pc = "crashed" => crash \in OutsideCauses /\ failed \notin ListedCalls)
    /\ [](pc = "done" =>
            /\ crash = ""
            /\ calls = (IF SingleCell THEN 1 ELSE SweepSize))

\* A default sweep that ended normally although every one of its workloads
\* failed before compilation.
C14_Witness ==
    /\ pc = "done"
    /\ ~SingleCell
    /\ crash = ""
    /\ attempts = SweepSize * MaxWorkloads
    /\ builds = 0

\* C15: a failure raised while a workload's schedule is set up, entering the
\* tuned-history scope and the compile-target scope included, is caught and
\* skips that workload only: it never ends the process.
C15_ScopeEntryCaught ==
    failed \in {"apply_history_best", "target_create", "get_conv_ts"} =>
        pc # "crashed" /\ crash = ""

\* The stage calls of a workload, in the order bench_tvm and build_and_run
\* make them.
StageCalls == {"get_conv_ts", "alloc", "build", "invoke", "time", "test_correctness"}

Stages(s) == SelectSeq(s, LAMBDA e : e \in StageCalls)

\* C16 as stated: schedule, compile, buffers, run, check; no buffer of a
\* workload is allocated before the workload's tvm.build has succeeded.
C16_BuffersAfterCompile ==
    (InWl /\ Has(ev, "alloc")) =>
        /\ Has(ev, "build")
        /\ IndexOf(ev, "build") < IndexOf(ev, "alloc")

\* C16 amended: the stage calls of a workload are made in the order schedule
\* construction (get_conv_ts), device buffers (allocation), compilation
\* (tvm.build), run (warmup invocations, timing), check; each at most once
\* but the invocations, none after a stage call that failed.  Buffers are
\* allocated once the schedule is built and before compilation.
C16_StageOrder ==
    InWl =>
        /\ IsPrefix(Stages(ev),
                    <<"get_conv_ts", "alloc", "build">>
                        \o Repeat("invoke", WorkloadWarmup(cfg.workloads, idx))
                        \o <<"time", "test_correctness">>)
        /\ (failed \in StageCalls) =>
              Stages(ev)[Len(Stages(ev))] = failed

\* A workload whose compilation failed with its buffers already allocated.
C16_Witness ==
    /\ WlEnded
    /\ failed = "build"
    /\ Stages(ev) = <<"get_conv_ts", "alloc", "build">>
    /\ types.output # ""

\* C17: a failure of export, upload, load, a warmup invocation or the timing
\* prints one run-skip line and no failed line; a failure of compilation
\* prints one failed line and no run-skip line.
C17_RunFailurePath ==
    InWl =>
        /\ Has(ev, "failed_line") =>
              /\ failed = "build"
              /\ ev[IndexOf(ev, "failed_line") - 1] = "build"
        /\ WlEnded =>
              /\ failed \in {"export_library", "upload", "load_module",
                             "invoke", "time"} =>
                    /\ Kinds(out) = <<"run skip">>
                    /\ Count(ev, "run_skip") = 1
                    /\ ~Has(ev, "failed_line")
              /\ failed = "build" =>
                    /\ Kinds(out) = <<"failed">>
                    /\ Count(ev, "failed_line") = 1
                    /\ ~Has(ev, "run_skip")

\* A remote workload whose load failed: one run-skip line.
C17_Witness ==
    /\ WlEnded
    /\ failed = "load_module"
    /\ Kinds(out) = <<"run skip">>
    /\ Has(ev, "build")

\* C18: in a remote run load_module is called right after the upload of the
\* artifact just built, under that artifact's name, and the module warmed up,
\* timed and checked is that artifact, also in a later cell of the sweep that
\* reuses the name; a local run runs the module tvm.build returned.
C18_LoadsWhatItBuilt ==
    InWl =>
        /\ Has(ev, "load_module") =>
              /\ Count(ev, "upload") = 1
              /\ Count(ev, "load_module") = 1
              /\ IndexOf(ev, "upload") = IndexOf(ev, "load_module") - 1
              /\ ev[IndexOf(ev, "upload") - 1] = "export_library"
              /\ ev[IndexOf(ev, "upload") - 2] = "build"
        /\ ship.loaded # <<>> =>
              /\ ship.loaded = SoName(idx, cfg.workloads)
              /\ ship.uploaded = ship.loaded
              /\ ship.exported = ship.loaded
        /\ (Has(ev, "invoke") \/ Has(ev, "time")) =>
              ship.module = (IF remote # 0 THEN "fresh" ELSE "built")
        /\ ship.module # "old"

\* The second cell of a remote sweep reuses the names of the first and runs
\* the artifact it has just uploaded.
C18_Witness ==
    /\ InWl
    /\ remote # 0
    /\ calls = 2
    /\ cfg.workloads = SweepCell(0).workloads
    /\ pc = "check"
    /\ ship.loaded = SoName(idx, SweepCell(0).workloads)
    /\ ship.module = "fresh"

\* The calls made inside one of the three try scopes.
ScopedCalls == ListedCalls \cup {"build_config"}

\* C19: a KeyboardInterrupt or SystemExit raised by schedule construction,
\* compilation or a run call is handled as any failure of that call: the
\* workload's lines are those of the call that failed, whatever was raised,
\* and the process goes on; it ends the process only when raised outside the
\* try scopes.
C19_InterruptIsAFailure ==
    /\ (exc = "BaseException" /\ failed \in ScopedCalls) =>
          pc # "crashed" /\ crash = ""
    /\ (WlEnded /\ exc = "BaseException") => Kinds(out) = ExpectedKinds(failed)
    /\ (pc = "crashed" /\ exc = "BaseException") =>
          failed \in {"prepare", "apply_history_best", "target_create"}
    /\ (exc = "") = (failed = "")

\* An interrupt during the first workload's compilation, logged as a build
\* failure, the loop at its head for the next workload.
C19_Witness ==
    /\ WlEnded
    /\ pc = "loop"
    /\ idx = 0
    /\ exc = "BaseException"
    /\ failed = "build"
    /\ Kinds(out) = <<"failed">>

====
